---- MODULE Spec2Model ----
(***************************************************************************)
(* A model of the HKU CS seminar synchronisation scripts:                  *)
(*   src/hku_seminars_to_outlook.py  parse_datetime_range and the Outlook  *)
(*                                   calendar reconciliation               *)
(*   src/email_notifier.py           SeminarEmailNotifier, the notify-once *)
(*                                   e-mail path with its JSON state file  *)
(*                                                                         *)
(* Text is modelled as TLA+ strings and the string methods the code calls  *)
(* (strip, lower, replace, split, startswith, "in") are computed           *)
(* character by character.  Instants are seconds of Hong Kong wall-clock   *)
(* time counted from 2025-01-01T00:00.                                     *)
(***************************************************************************)
EXTENDS Integers, Sequences, FiniteSets, TLC

VARIABLES
    \* ---- parse_datetime_range (hku_seminars_to_outlook.py) ----
    p_pc,        \* "call" | "returned" | "raised"
    p_date,      \* argument date_str
    p_range,     \* argument time_range_str
    p_start,     \* returned start_dt (NoneVal until returned)
    p_end,       \* returned end_dt
    \* ---- SeminarEmailNotifier (email_notifier.py) ----
    smtp_host,   \* self.smtp_host
    from_email,  \* self.from_email, resolved by __init__
    to_emails,   \* self.to_emails
    fs,          \* the file system: path -> content, for state_file and its .tmp
    n_pc,        \* position of the send_new_invites call
    seminars,    \* argument of send_new_invites
    idx,         \* position of the for loop in seminars (1-based)
    sent,        \* local set "sent"
    new_count,   \* local counter
    cur,         \* record of the run in progress or last finished (history)
    prev,        \* record of the run before it (history)
    \* ---- sync_seminars_to_outlook (hku_seminars_to_outlook.py) ----
    remote,      \* the events of the Outlook calendar
    s_pc,        \* position of the sync_seminars_to_outlook call
    s_seminars,  \* local "seminars", the result of fetch_seminars
    page,        \* number of the calendarView page the next request asks for
    events,      \* local "events"
    existing_index, \* local "existing_index": key -> event
    seminar_events, \* local "seminar_events"
    s_idx,       \* position of the create loop in seminars (1-based)
    created,     \* local counter
    now_hk,      \* local "now_hk"
    d_idx,       \* position of the delete loop in seminar_events (1-based)
    deleted,     \* local counter
    s_cur,       \* record of the sync run in progress or last finished (history)
    s_prev,      \* record of the sync run before it (history)
    \* ---- _save_sent_keys followed by _load_sent_keys ----
    rt_pc,       \* "idle" | "call" | "saved" | "loaded"
    rt_keys,     \* argument keys of _save_sent_keys
    rt_file,     \* the state file: <<>> when there is none, else <<its text>>
    rt_loaded,   \* set returned by _load_sent_keys (NoneVal until it returns)
    \* ---- the two identity keys of a pair of occurrences ----
    k_pc,        \* "idle" | "call" | "done"
    k_a,         \* first occurrence
    k_b,         \* second occurrence
    k_notify,    \* <<_event_key(a), _event_key(b)>>
    k_calendar   \* the calendar keys of a and b

parseVars == <<p_pc, p_date, p_range, p_start, p_end>>

cfgVars == <<smtp_host, from_email, to_emails>>

notifyVars ==
    <<smtp_host, from_email, to_emails, fs, n_pc, seminars, idx, sent,
      new_count, cur, prev>>

roundVars == <<rt_pc, rt_keys, rt_file, rt_loaded>>

keyVars == <<k_pc, k_a, k_b, k_notify, k_calendar>>

pureVars == <<roundVars, keyVars>>

syncVars ==
    <<remote, s_pc, s_seminars, page, events, existing_index, seminar_events,
      s_idx, created, now_hk, d_idx, deleted, s_cur, s_prev>>

\* Python's None where an instant or a number is expected (instants are >= 0);
\* the strptime models return it for the ValueError strptime raises
NoneVal == 0 - 1

-----------------------------------------------------------------------------
(* str methods                                                             *)

Range(f) == {f[i] : i \in DOMAIN f}

\* s[i:] with 1-based i
StrFrom(s, i) == SubSeq(s, i, Len(s))

\* str.startswith
StartsWith(s, p) == Len(s) >= Len(p) /\ SubSeq(s, 1, Len(p)) = p

\* "sub in s"
RECURSIVE Contains(_, _)
Contains(s, sub) ==
    IF Len(s) < Len(sub) THEN FALSE
    ELSE IF StartsWith(s, sub) THEN TRUE
    ELSE Contains(StrFrom(s, 2), sub)

\* str.replace(old, new): leftmost non-overlapping occurrences
RECURSIVE Replace(_, _, _)
Replace(s, old, new) ==
    IF Len(s) < Len(old) THEN s
    ELSE IF StartsWith(s, old)
         THEN new \o Replace(StrFrom(s, Len(old) + 1), old, new)
         ELSE SubSeq(s, 1, 1) \o Replace(StrFrom(s, 2), old, new)

RECURSIVE LStrip(_)
LStrip(s) == IF Len(s) > 0 /\ SubSeq(s, 1, 1) = " " THEN LStrip(StrFrom(s, 2)) ELSE s

RECURSIVE RStrip(_)
RStrip(s) ==
    IF Len(s) > 0 /\ SubSeq(s, Len(s), Len(s)) = " "
    THEN RStrip(SubSeq(s, 1, Len(s) - 1)) ELSE s

\* str.strip
Strip(s) == RStrip(LStrip(s))

LowerChar(c) ==
    CASE c = "A" -> "a" [] c = "M" -> "m" [] c = "P" -> "p"
      [] c = "N" -> "n" [] c = "O" -> "o" [] OTHER -> c

\* str.lower
RECURSIVE Lower(_)
Lower(s) == IF Len(s) = 0 THEN s ELSE LowerChar(SubSeq(s, 1, 1)) \o Lower(StrFrom(s, 2))

\* index of the first occurrence of the one-character string c in s, 0 if none
RECURSIVE FindChar(_, _, _)
FindChar(s, c, i) ==
    IF i > Len(s) THEN 0
    ELSE IF SubSeq(s, i, i) = c THEN i ELSE FindChar(s, c, i + 1)

\* str.split(sep) for a one-character separator
RECURSIVE Split(_, _)
Split(s, sep) ==
    LET k == FindChar(s, sep, 1)
    IN  IF k = 0 THEN <<s>>
        ELSE <<SubSeq(s, 1, k - 1)>> \o Split(StrFrom(s, k + 1), sep)

Digits == {"0", "1", "2", "3", "4", "5", "6", "7", "8", "9"}

DigitVal(c) ==
    CASE c = "0" -> 0 [] c = "1" -> 1 [] c = "2" -> 2 [] c = "3" -> 3
      [] c = "4" -> 4 [] c = "5" -> 5 [] c = "6" -> 6 [] c = "7" -> 7
      [] c = "8" -> 8 [] c = "9" -> 9

IsDigits(s) == Len(s) > 0 /\ \A i \in 1..Len(s) : SubSeq(s, i, i) \in Digits

RECURSIVE ToInt(_)
ToInt(s) ==
    IF Len(s) = 0 THEN 0
    ELSE 10 * ToInt(SubSeq(s, 1, Len(s) - 1)) + DigitVal(SubSeq(s, Len(s), Len(s)))

-----------------------------------------------------------------------------
(* datetime.strptime for the two formats the code uses.  A result of       *)
(* NoneVal stands for the ValueError strptime raises.                      *)

MonthNames ==
    <<"January", "February", "March", "April", "May", "June", "July",
      "August", "September", "October", "November", "December">>

\* days in each month of a non-leap year (every modelled date is in 2025)
MonthDays == <<31, 28, 31, 30, 31, 30, 31, 31, 30, 31, 30, 31>>

RECURSIVE DaysBefore(_)
DaysBefore(m) == IF m = 1 THEN 0 ELSE MonthDays[m - 1] + DaysBefore(m - 1)

\* strptime(s, "%B %d, %Y").date(), as the number of days since 2025-01-01
StrptimeDate(s) ==
    LET sp    == FindChar(s, " ", 1)
        month == SubSeq(s, 1, sp - 1)
        rest  == LStrip(StrFrom(s, sp + 1))
        cm    == FindChar(rest, ",", 1)
        day   == SubSeq(rest, 1, cm - 1)
        year  == LStrip(StrFrom(rest, cm + 1))
        ms    == {m \in 1..12 : MonthNames[m] = month}
    IN  IF sp = 0 \/ cm = 0 \/ ms = {} THEN NoneVal
        ELSE LET m == CHOOSE mm \in ms : TRUE
             IN  IF /\ IsDigits(day) /\ Len(day) <= 2
                    /\ ToInt(day) \in 1..MonthDays[m]
                    /\ cm < Len(rest) /\ SubSeq(rest, cm + 1, cm + 1) = " "
                    /\ year = "2025"
                 THEN DaysBefore(m) + ToInt(day) - 1
                 ELSE NoneVal

\* strptime(t, "%I:%M %p").time(), as seconds since midnight
StrptimeTime(t) ==
    LET col  == FindChar(t, ":", 1)
        hh   == SubSeq(t, 1, col - 1)
        rest == StrFrom(t, col + 1)
        sp   == FindChar(rest, " ", 1)
        mm   == SubSeq(rest, 1, sp - 1)
        mer  == LStrip(StrFrom(rest, sp))
    IN  IF /\ col > 0 /\ sp > 0
           /\ IsDigits(hh) /\ Len(hh) <= 2 /\ ToInt(hh) \in 1..12
           /\ IsDigits(mm) /\ Len(mm) <= 2 /\ ToInt(mm) \in 0..59
           /\ mer \in {"am", "pm"}
        THEN ((ToInt(hh) % 12) + (IF mer = "pm" THEN 12 ELSE 0)) * 3600
             + ToInt(mm) * 60
        ELSE NoneVal

-----------------------------------------------------------------------------
(* parse_datetime_range                                                    *)

\* the nested parse_time(t)
parse_time(t) ==
    LET t1 == Lower(Strip(t))
        t2 == Replace(t1, "nn", "pm")
        t3 == Replace(t2, " noon", " pm")
        t4 == IF Contains(t3, "am") /\ ~Contains(t3, " ")
              THEN Replace(t3, "am", " am") ELSE t3
        t5 == IF Contains(t4, "pm") /\ ~Contains(t4, " ")
              THEN Replace(t4, "pm", " pm") ELSE t4
    IN  StrptimeTime(t5)

\* datetime.combine(date, time).replace(tzinfo=HK_TZ)
Combine(date, time) == date * 86400 + time

\* the whole function: [ok |-> FALSE] is a raised ValueError
parse_datetime_range(date_str, time_range_str) ==
    LET date  == StrptimeDate(Strip(date_str))
        parts == Split(time_range_str, "-")
    IN  IF date = NoneVal THEN [ok |-> FALSE]
        ELSE IF time_range_str = ""
        THEN [ok |-> TRUE, start |-> Combine(date, 9 * 3600),
              end |-> Combine(date, 9 * 3600) + 3600]
        ELSE IF Len(parts) # 2 THEN [ok |-> FALSE]
        ELSE LET start_time == parse_time(parts[1])
                 end_time   == parse_time(parts[2])
             IN  IF start_time = NoneVal \/ end_time = NoneVal
                 THEN [ok |-> FALSE]
                 ELSE [ok |-> TRUE, start |-> Combine(date, start_time),
                       end |-> Combine(date, end_time)]

\* the date texts and time texts the parser is applied to
DateTexts ==
    {"November 21, 2025", " November 21, 2025 ", "December 1, 2025",
     "November 31, 2025", "2025-11-21"}

TimeTexts ==
    {"10:30 am", "11:30 am", "11:00 am", "12:00 nn", "12:00 noon", "12:00noon",
     "2:00pm", "1:00 PM", "12:30 am", "11:00 pm", "9:00", "13:00 pm"}

RangeTexts ==
    {""} \cup TimeTexts
         \cup {a \o " - " \o b : a, b \in TimeTexts}
         \cup {a \o "-" \o b : a, b \in {"2:00pm", "10:30 am"}}
         \cup {"10:30 am - 11:30 am - 12:00 nn"}

ParseInit ==
    /\ p_pc = "call"
    /\ p_date \in DateTexts
    /\ p_range \in RangeTexts
    /\ p_start = NoneVal
    /\ p_end = NoneVal

ParseIdle ==
    /\ p_pc = "idle" /\ p_date = "" /\ p_range = ""
    /\ p_start = NoneVal /\ p_end = NoneVal

ParseReturn ==
    /\ p_pc = "call"
    /\ parse_datetime_range(p_date, p_range).ok
    /\ p_pc' = "returned"
    /\ p_start' = parse_datetime_range(p_date, p_range).start
    /\ p_end' = parse_datetime_range(p_date, p_range).end
    /\ UNCHANGED <<p_date, p_range, notifyVars, syncVars, pureVars>>

ParseRaise ==
    /\ p_pc = "call"
    /\ ~parse_datetime_range(p_date, p_range).ok
    /\ p_pc' = "raised"
    /\ UNCHANGED <<p_date, p_range, p_start, p_end, notifyVars, syncVars, pureVars>>

-----------------------------------------------------------------------------
(* fetch_seminars: one table row becomes one seminar dict                  *)

Seminar(title, speaker, date_str, time_range_str, venue) ==
    LET r == parse_datetime_range(date_str, time_range_str)
    IN  [title |-> title, speaker |-> speaker, start |-> r.start,
         end |-> r.end, venue |-> venue]

SemA == Seminar("A", "S", "November 21, 2025", "10:30 am - 11:30 am", "V1")
SemB == Seminar("B", "S", "December 1, 2025", "11:00 am - 12:00 nn", "V2")

\* an occurrence of an earlier page, no longer passed to the notifier
SemOld == Seminar("C", "T", "November 21, 2025", "2:00pm - 1:00 PM", "V3")

\* the occurrences the notifier is called with
NotifyOccs == {SemA, SemB}

\* longest occurrence list passed to one run
MaxLen == 2

RECURSIVE SeqsUpTo(_, _)
SeqsUpTo(S, n) ==
    IF n = 0 THEN {<<>>}
    ELSE LET shorter == SeqsUpTo(S, n - 1)
         IN  shorter \cup {Append(q, x) : q \in {r \in shorter : Len(r) = n - 1}, x \in S}

NotifyLists == SeqsUpTo(NotifyOccs, MaxLen)

-----------------------------------------------------------------------------
(* SeminarEmailNotifier                                                    *)

\* two decimal digits
Pad2(n) == IF n < 10 THEN "0" \o ToString(n) ELSE ToString(n)

\* the day of the year (from 0) on which each month starts
MonthStart == [m \in 1..12 |-> DaysBefore(m)]

\* the month of a day counted from 2025-01-01 (day 0)
MonthOf(day) ==
    CHOOSE m \in 1..12 : MonthStart[m] <= day /\ day < MonthStart[m] + MonthDays[m]

\* "%Y-%m-%dT%H:%M" of an instant of 2025
IsoMinutes(t) ==
    LET day   == t \div 86400
        sec   == t % 86400
        month == MonthOf(day)
    IN  "2025-" \o Pad2(month) \o "-"
          \o Pad2(day - MonthStart[month] + 1)
          \o "T" \o Pad2(sec \div 3600) \o ":" \o Pad2((sec % 3600) \div 60)

\* datetime.isoformat() of an instant with tzinfo Asia/Hong_Kong and no
\* microseconds: YYYY-MM-DDTHH:MM:SS+08:00
isoformat_minutes(t) == IsoMinutes(t) \o "+08:00"
isoformat(t) == IsoMinutes(t) \o ":" \o Pad2(t % 60) \o "+08:00"

\* _event_key
event_key(seminar) ==
    seminar.title \o "|" \o seminar.speaker \o "|" \o isoformat(seminar.start)

NotifyKeys == {event_key(o) : o \in NotifyOccs}

\* printable ASCII in code point order: from the space (32) to the underscore
\* (95), and from the small a (97) to the tilde (126)
AsciiLow == " !\"#$%&'()*+,-./0123456789:;<=>?@ABCDEFGHIJKLMNOPQRSTUVWXYZ[\\]^_"
AsciiHigh == "abcdefghijklmnopqrstuvwxyz{|}~"

\* the code point (ord) of each character of the model's ASCII text
CodePoint ==
    [c \in {"\n"} \cup {SubSeq(AsciiLow, i, i) : i \in 1..Len(AsciiLow)}
              \cup {SubSeq(AsciiHigh, i, i) : i \in 1..Len(AsciiHigh)} |->
        IF c = "\n" THEN 10
        ELSE IF FindChar(AsciiLow, c, 1) > 0 THEN 31 + FindChar(AsciiLow, c, 1)
        ELSE 96 + FindChar(AsciiHigh, c, 1)]

CharCode(c) == CodePoint[c]

\* str < str
RECURSIVE StrLess(_, _)
StrLess(a, b) ==
    IF Len(b) = 0 THEN FALSE
    ELSE IF Len(a) = 0 THEN TRUE
    ELSE LET ca == CharCode(SubSeq(a, 1, 1))
             cb == CharCode(SubSeq(b, 1, 1))
         IN  IF ca # cb THEN ca < cb ELSE StrLess(StrFrom(a, 2), StrFrom(b, 2))

\* sorted(keys)
RECURSIVE Sorted(_)
Sorted(S) ==
    IF S = {} THEN <<>>
    ELSE LET m == CHOOSE x \in S : \A y \in S \ {x} : StrLess(x, y)
         IN  <<m>> \o Sorted(S \ {m})

\* file contents
\*   missing      no file at the path
\*   array        a JSON array of strings (items)
\*   truncated    the bytes of an unfinished write: not valid JSON
\*   invalid_json text that is not JSON
\*   undecodable  bytes that are not UTF-8
\*   scalar       valid JSON that is a number
\*   object       valid JSON that is an object; items are its member names
FileOf(kind, items) == [kind |-> kind, items |-> items]
Missing == FileOf("missing", <<>>)

STATE_FILE == "sent_seminars.json"

\* _save_sent_keys: tmp_path = f"{self.state_file}.tmp"
tmp_path_inplace(state_file) == state_file
tmp_path(state_file) == state_file \o ".tmp"

Paths == {STATE_FILE, STATE_FILE \o ".tmp"}

\* _save_sent_keys: what json.dump(sorted(keys), f) leaves in the file
dump_keys_none(keys) == FileOf("array", <<>>)
dump_keys(keys) == FileOf("array", Sorted(keys))

\* _load_sent_keys.  oserror: open() fails although the path exists.
\* raised: an exception that the except clause does not catch leaves the method
load_sent_keys(file, oserror) ==
    IF file.kind = "missing"
    THEN [raised |-> FALSE, warn |-> FALSE, keys |-> {}]
    ELSE IF oserror
    THEN [raised |-> FALSE, warn |-> TRUE, keys |-> {}]
    ELSE IF file.kind \in {"array", "object"}
    THEN [raised |-> FALSE, warn |-> FALSE, keys |-> Range(file.items)]
    ELSE IF file.kind \in {"truncated", "invalid_json"}
    THEN [raised |-> FALSE, warn |-> TRUE, keys |-> {}]
    ELSE [raised |-> TRUE, warn |-> FALSE, keys |-> {}]

\* ensure_ready: TRUE when it returns, FALSE when it raises RuntimeError
ensure_ready_no_recipients(host, from, to) == host # "" /\ from # ""
ensure_ready(host, from, to) == host # "" /\ from # "" /\ to # <<>>

\* send_new_invites line 147: "if key in sent: continue"
key_in_sent_never(key, s) == FALSE
key_in_sent(key, s) == key \in s

\* __init__: self.from_email = from_email or smtp_user
init_from_email(from, smtp_user) == IF from # "" THEN from ELSE smtp_user

\* state files a first run can find
InitialFiles ==
    {Missing} \cup {dump_keys(S) : S \in SUBSET NotifyKeys}
      \cup {dump_keys({event_key(SemOld)})}
      \cup {FileOf("invalid_json", <<>>), FileOf("undecodable", <<>>),
            FileOf("scalar", <<>>), FileOf("object", <<event_key(SemA)>>)}

\* history of one run: its argument, whether the argument is the one of the
\* run before, how it ended, how the load went, the state file it found, the
\* I/O it did, and the value it returned
NoRun ==
    [seminars |-> <<>>, same |-> FALSE, outcome |-> "none", load |-> "none",
     file0 |-> Missing, log |-> <<>>, result |-> NoneVal]

NewRun(list, same, file) ==
    [seminars |-> list, same |-> same, outcome |-> "running", load |-> "none",
     file0 |-> file, log |-> <<>>, result |-> NoneVal]

Ev(op, key, file) == [op |-> op, key |-> key, file |-> file]

RECURSIVE SelectOps(_, _)
SelectOps(log, ops) ==
    IF log = <<>> THEN <<>>
    ELSE (IF Head(log).op \in ops THEN <<Head(log)>> ELSE <<>>)
         \o SelectOps(Tail(log), ops)

\* what is kept of a run once the next one starts
Summary(r) ==
    [outcome |-> r.outcome, log |-> SelectOps(r.log, {"send_ok", "send_fail"})]

\* the keys a run delivered, in order
RECURSIVE SelectKeys(_, _)
SelectKeys(log, op) ==
    IF log = <<>> THEN <<>>
    ELSE (IF Head(log).op = op THEN <<Head(log).key>> ELSE <<>>)
         \o SelectKeys(Tail(log), op)

Delivered(r) == SelectKeys(r.log, "send_ok")

NotifyInit ==
    /\ smtp_host \in {"", "smtp.example.org"}
    /\ from_email \in {init_from_email(f, u) : f, u \in {"", "a@example.org"}}
    /\ to_emails \in {<<>>, <<"b@example.org">>}
    /\ \E f \in InitialFiles :
         fs = [p \in Paths |-> IF p = STATE_FILE THEN f ELSE Missing]
    /\ n_pc = "idle"
    /\ seminars = <<>>
    /\ idx = 1
    /\ sent = {}
    /\ new_count = 0
    /\ cur = NoRun
    /\ prev = Summary(NoRun)

NotifyIdle ==
    /\ smtp_host = "" /\ from_email = "" /\ to_emails = <<>>
    /\ fs = [p \in Paths |-> Missing]
    /\ n_pc = "idle" /\ seminars = <<>> /\ idx = 1 /\ sent = {} /\ new_count = 0
    /\ cur = NoRun /\ prev = Summary(NoRun)

Finished == {"idle", "returned", "raised", "crashed"}

\* send_new_invites is called and ensure_ready raises
CallNotReady ==
    /\ n_pc \in Finished
    /\ ~ensure_ready(smtp_host, from_email, to_emails)
    /\ \E list \in NotifyLists :
         /\ seminars' = list
         /\ cur' = [NewRun(list, list = seminars /\ n_pc # "idle", fs[STATE_FILE]) EXCEPT !.outcome = "config_error"]
    /\ prev' = Summary(cur)
    /\ n_pc' = "raised"
    /\ idx' = 1 /\ sent' = {} /\ new_count' = 0
    /\ UNCHANGED <<cfgVars, fs, parseVars, syncVars, pureVars>>

\* send_new_invites is called and ensure_ready returns
CallReady ==
    /\ n_pc \in Finished
    /\ ensure_ready(smtp_host, from_email, to_emails)
    /\ \E list \in NotifyLists :
         /\ seminars' = list
         /\ cur' = NewRun(list, list = seminars /\ n_pc # "idle", fs[STATE_FILE])
    /\ prev' = Summary(cur)
    /\ n_pc' = "load"
    /\ idx' = 1 /\ sent' = {} /\ new_count' = 0
    /\ UNCHANGED <<cfgVars, fs, parseVars, syncVars, pureVars>>

LoadKind(file, oserror, r) ==
    IF r.raised THEN "raised"
    ELSE IF file.kind = "missing" THEN "missing"
    ELSE IF oserror THEN "warn_os"
    ELSE IF r.warn THEN "warn_json"
    ELSE "ok"

\* sent = self._load_sent_keys(); new_count = 0
LoadSentKeys ==
    /\ n_pc = "load"
    /\ \E oserror \in BOOLEAN :
         LET file == fs[STATE_FILE]
             r    == load_sent_keys(file, oserror)
         IN  /\ oserror => file.kind # "missing"
             /\ sent' = r.keys
             /\ n_pc' = IF r.raised THEN "raised" ELSE "loop"
             /\ cur' = [cur EXCEPT
                          !.load = LoadKind(file, oserror, r),
                          !.outcome = IF r.raised THEN "load_error" ELSE @,
                          !.log = Append(@, Ev("read", "", file))]
    /\ new_count' = 0
    /\ UNCHANGED <<cfgVars, fs, seminars, idx, prev, parseVars, syncVars, pureVars>>

InLoop == n_pc = "loop" /\ idx <= Len(seminars)

\* "if key in sent: continue"
LoopSkip ==
    /\ InLoop
    /\ key_in_sent(event_key(seminars[idx]), sent)
    /\ idx' = idx + 1
    /\ UNCHANGED <<cfgVars, fs, n_pc, seminars, sent, new_count, cur, prev, parseVars, syncVars, pureVars>>

\* _build_email_message, _send_email succeeds, sent.add(key)
SendOk ==
    /\ InLoop
    /\ ~key_in_sent(event_key(seminars[idx]), sent)
    /\ sent' = sent \cup {event_key(seminars[idx])}
    /\ cur' = [cur EXCEPT !.log = Append(@, Ev("send_ok", event_key(seminars[idx]), Missing))]
    /\ n_pc' = "save_open"
    /\ UNCHANGED <<cfgVars, fs, seminars, idx, new_count, prev, parseVars, syncVars, pureVars>>

\* _send_email raises (SMTP failure): the exception leaves send_new_invites
SendFail ==
    /\ InLoop
    /\ ~key_in_sent(event_key(seminars[idx]), sent)
    /\ cur' = [cur EXCEPT
                 !.outcome = "send_error",
                 !.log = Append(@, Ev("send_fail", event_key(seminars[idx]), Missing))]
    /\ n_pc' = "raised"
    /\ UNCHANGED <<cfgVars, fs, seminars, idx, sent, new_count, prev, parseVars, syncVars, pureVars>>

\* _save_sent_keys: open(tmp_path, "w") creates or truncates the file
SaveOpen ==
    /\ n_pc = "save_open"
    /\ fs' = [fs EXCEPT ![tmp_path(STATE_FILE)] = FileOf("truncated", <<>>)]
    /\ cur' = [cur EXCEPT !.log = Append(@, Ev("open_w", tmp_path(STATE_FILE), fs[STATE_FILE]))]
    /\ n_pc' = "save_dump"
    /\ UNCHANGED <<cfgVars, seminars, idx, sent, new_count, prev, parseVars, syncVars, pureVars>>

\* _save_sent_keys: json.dump(sorted(keys), f) and the close of the with block
SaveDump ==
    /\ n_pc = "save_dump"
    /\ fs' = [fs EXCEPT ![tmp_path(STATE_FILE)] = dump_keys(sent)]
    /\ n_pc' = "save_replace"
    /\ UNCHANGED <<cfgVars, seminars, idx, sent, new_count, cur, prev, parseVars, syncVars, pureVars>>

\* _save_sent_keys: os.replace(tmp_path, self.state_file); then new_count += 1
SaveReplace ==
    /\ n_pc = "save_replace"
    /\ fs' = IF tmp_path(STATE_FILE) = STATE_FILE THEN fs
             ELSE [fs EXCEPT ![STATE_FILE] = fs[tmp_path(STATE_FILE)],
                             ![tmp_path(STATE_FILE)] = Missing]
    /\ cur' = [cur EXCEPT !.log = Append(@, Ev("replace", "", fs[tmp_path(STATE_FILE)]))]
    /\ new_count' = new_count + 1
    /\ idx' = idx + 1
    /\ n_pc' = "loop"
    /\ UNCHANGED <<cfgVars, seminars, sent, prev, parseVars, syncVars, pureVars>>

\* _save_sent_keys: open() or the write raises OSError, which nothing catches
SaveError ==
    /\ n_pc \in {"save_open", "save_dump"}
    /\ cur' = [cur EXCEPT !.outcome = "save_error"]
    /\ n_pc' = "raised"
    /\ UNCHANGED <<cfgVars, fs, seminars, idx, sent, new_count, prev, parseVars, syncVars, pureVars>>

\* return new_count
Return ==
    /\ n_pc = "loop"
    /\ idx > Len(seminars)
    /\ cur' = [cur EXCEPT !.outcome = "returned", !.result = new_count]
    /\ n_pc' = "returned"
    /\ UNCHANGED <<cfgVars, fs, seminars, idx, sent, new_count, prev, parseVars, syncVars, pureVars>>

Running == {"load", "loop", "save_open", "save_dump", "save_replace"}

\* the process dies (kill, power loss) between two steps of the run
Crash ==
    /\ n_pc \in Running
    /\ cur' = [cur EXCEPT !.outcome = "crash",
                          !.log = Append(@, Ev("crash", n_pc, fs[STATE_FILE]))]
    /\ n_pc' = "crashed"
    /\ UNCHANGED <<cfgVars, fs, seminars, idx, sent, new_count, prev, parseVars, syncVars, pureVars>>

NotifyNext ==
    \/ CallNotReady \/ CallReady \/ LoadSentKeys \/ LoopSkip \/ SendOk
    \/ SendFail \/ SaveOpen \/ SaveDump \/ SaveReplace \/ SaveError
    \/ Return \/ Crash

-----------------------------------------------------------------------------
(* The text of the state file: json.dump(sorted(keys), f,                  *)
(* ensure_ascii=False, indent=2) and json.load(f), for ASCII keys.         *)
(* FileOf("array", items) above stands for the text json_dump(items).      *)

\* one character of a string inside a JSON string literal
json_escape_char_raw(c) == c
json_escape_char(c) ==
    CASE c = "\"" -> "\\\""
      [] c = "\\" -> "\\\\"
      [] c = "\n" -> "\\n"
      [] OTHER -> c

RECURSIVE json_escape(_)
json_escape(str) ==
    IF Len(str) = 0 THEN ""
    ELSE json_escape_char(SubSeq(str, 1, 1)) \o json_escape(StrFrom(str, 2))

RECURSIVE json_join(_)
json_join(items) ==
    IF Len(items) = 1 THEN "\"" \o json_escape(items[1]) \o "\""
    ELSE "\"" \o json_escape(items[1]) \o "\",\n  " \o json_join(Tail(items))

\* json.dump(items, f, ensure_ascii=False, indent=2) for a list of strings
json_dump(items) ==
    IF items = <<>> THEN "[]" ELSE "[\n  " \o json_join(items) \o "\n]"

\* the character at position i, "" past the end
CharAt(text, i) == IF i <= Len(text) THEN SubSeq(text, i, i) ELSE ""

\* position of the first character at or after i that is not JSON whitespace
RECURSIVE SkipWs(_, _)
SkipWs(text, i) ==
    IF CharAt(text, i) \in {" ", "\n", "\t", "\r"} THEN SkipWs(text, i + 1) ELSE i

JsonError == [ok |-> FALSE, items |-> <<>>]

\* the rest of a string literal from position i: its value and the position
\* after the closing quote
RECURSIVE ScanString(_, _, _)
ScanString(text, i, acc) ==
    LET c == CharAt(text, i)
        e == CharAt(text, i + 1)
    IN  IF c = "" \/ c = "\n" THEN [ok |-> FALSE]
        ELSE IF c = "\"" THEN [ok |-> TRUE, value |-> acc, next |-> i + 1]
        ELSE IF c = "\\"
        THEN IF e = "\"" THEN ScanString(text, i + 2, acc \o "\"")
             ELSE IF e = "\\" THEN ScanString(text, i + 2, acc \o "\\")
             ELSE IF e = "n" THEN ScanString(text, i + 2, acc \o "\n")
             ELSE [ok |-> FALSE]
        ELSE ScanString(text, i + 1, acc \o c)

\* the items of an array of strings from the item at position i
RECURSIVE ParseItems(_, _, _)
ParseItems(text, i, acc) ==
    IF CharAt(text, i) # "\"" THEN JsonError
    ELSE LET r == ScanString(text, i + 1, "")
         IN  IF ~r.ok THEN JsonError
             ELSE LET j == SkipWs(text, r.next)
                  IN  IF CharAt(text, j) = ","
                      THEN ParseItems(text, SkipWs(text, j + 1), Append(acc, r.value))
                      ELSE IF CharAt(text, j) = "]" /\ SkipWs(text, j + 1) > Len(text)
                      THEN [ok |-> TRUE, items |-> Append(acc, r.value)]
                      ELSE JsonError

\* json.load of a text that holds an array of strings; ok is FALSE for the
\* JSONDecodeError of any other text
json_load(text) ==
    LET i == SkipWs(text, 1)
        j == SkipWs(text, i + 1)
    IN  IF CharAt(text, i) # "[" THEN JsonError
        ELSE IF CharAt(text, j) = "]"
        THEN IF SkipWs(text, j + 1) > Len(text)
             THEN [ok |-> TRUE, items |-> <<>>] ELSE JsonError
        ELSE ParseItems(text, j, <<>>)

\* the key sets _save_sent_keys is called with
RoundKeys ==
    {event_key(SemA), event_key(SemB), "", "a\"b", "a\\b", "x\",\n  \"y",
     "]", "\\n"}

RoundInit ==
    /\ rt_pc = "call"
    /\ rt_keys \in SUBSET RoundKeys
    /\ rt_file \in {<<>>, <<"[]">>, <<"not json">>}
    /\ rt_loaded = NoneVal

\* _save_sent_keys(keys): the dump into tmp_path and the os.replace
RoundSave ==
    /\ rt_pc = "call"
    /\ rt_file' = <<json_dump(Sorted(rt_keys))>>
    /\ rt_pc' = "saved"
    /\ UNCHANGED <<rt_keys, rt_loaded, keyVars, parseVars, notifyVars, syncVars>>

\* _load_sent_keys(): set(json.load(f)), or set() after the warning
RoundLoad ==
    /\ rt_pc = "saved"
    /\ rt_loaded' = IF rt_file = <<>> \/ ~json_load(rt_file[1]).ok THEN {}
                    ELSE Range(json_load(rt_file[1]).items)
    /\ rt_pc' = "loaded"
    /\ UNCHANGED <<rt_keys, rt_file, keyVars, parseVars, notifyVars, syncVars>>

RoundNext == RoundSave \/ RoundLoad

-----------------------------------------------------------------------------
(* sync_seminars_to_outlook and the Graph calendar                         *)
(*                                                                         *)
(* A remote event is [id, subject, start, end]; start and end are the      *)
(* instants of start.dateTime and end.dateTime, NoneVal when that field is *)
(* absent.  The calendar stores and returns Hong Kong wall-clock time, as  *)
(* parse_graph_datetime assumes.                                           *)

SUBJECT_PREFIX == "[HKU CS Seminar] "

\* f"{SUBJECT_PREFIX}{s['title']} - {s['speaker']}" (the dash is U+2014)
subject_of(seminar) == SUBJECT_PREFIX \o seminar.title \o " - " \o seminar.speaker

\* parse_graph_datetime
parse_graph_datetime(dt) == IF dt = NoneVal THEN NoneVal ELSE dt

\* dt.replace(second=0, microsecond=0)
truncate_minute(t) == t - (t % 60)

\* the key of the create loop, lines 328-329
seminar_key_no_prefix(seminar) ==
    <<seminar.title \o " - " \o seminar.speaker, truncate_minute(seminar.start)>>
seminar_key(seminar) == <<subject_of(seminar), truncate_minute(seminar.start)>>

\* build_existing_event_index line 244: the test that lets an event through
has_prefix_any(subject) == TRUE
has_prefix(subject) == StartsWith(subject, SUBJECT_PREFIX)

\* build_existing_event_index: events in order, later ones replace earlier
\* ones under the same key
RECURSIVE build_existing_event_index(_, _, _)
build_existing_event_index(evs, index, sem_events) ==
    IF evs = <<>> THEN [index |-> index, seminar_events |-> sem_events]
    ELSE LET e        == Head(evs)
             start_dt == parse_graph_datetime(e.start)
             key      == <<e.subject, truncate_minute(start_dt)>>
         IN  IF ~has_prefix(e.subject) \/ start_dt = NoneVal
             THEN build_existing_event_index(Tail(evs), index, sem_events)
             ELSE build_existing_event_index(
                      Tail(evs),
                      [k \in DOMAIN index \cup {key} |->
                          IF k = key THEN e ELSE index[k]],
                      Append(sem_events, e))

EmptyIndex == [k \in {} |-> 0]

\* the answers of the calendar to DELETE /me/events/{id}
DeleteStatuses == {200, 204, 403, 404, 500}

\* resp.raise_for_status(): HTTPError for a 4xx or 5xx status
raises_for_status(status) == 400 <= status /\ status < 600

\* delete_event: TRUE when it returns, FALSE when it raises
delete_event_404_raises(status) == status = 204 \/ ~raises_for_status(status)
delete_event(status) == status \in {204, 404} \/ ~raises_for_status(status)

\* the delete loop's test, line 344: "if end_dt and end_dt < now_hk"
is_expired_or_now(e, now) ==
    parse_graph_datetime(e.end) # NoneVal /\ parse_graph_datetime(e.end) <= now
is_expired(e, now) ==
    parse_graph_datetime(e.end) # NoneVal /\ parse_graph_datetime(e.end) < now

\* timedelta(days=7) in seconds
SevenDays == 7 * 86400

Min(S) == CHOOSE x \in S : \A y \in S : x <= y
Max(S) == CHOOSE x \in S : \A y \in S : x >= y

earliest(list) == Min({list[i].start : i \in DOMAIN list}) - SevenDays
latest(list)   == Max({list[i].end : i \in DOMAIN list}) + SevenDays

\* calendarView: the events that overlap the window
InWindow(e, lo, hi) ==
    /\ e.start = NoneVal \/ e.start <= hi
    /\ e.end = NoneVal \/ e.end >= lo

RECURSIVE SortById(_)
SortById(S) ==
    IF S = {} THEN <<>>
    ELSE LET e == CHOOSE x \in S : \A y \in S : x.id <= y.id
         IN  <<e>> \o SortById(S \ {e})

\* number of events the calendar puts on one page of a calendarView answer
PageSize == 2

WindowEvents(cal, list) ==
    SortById({e \in cal : InWindow(e, earliest(list), latest(list))})

PageOf(all, k) ==
    SubSeq(all, (k - 1) * PageSize + 1,
           IF k * PageSize < Len(all) THEN k * PageSize ELSE Len(all))

has_next_link_never(all, k) == FALSE
HasNextLink(all, k) == k * PageSize < Len(all)

\* Event ids are opaque to the code.  The calendar of the model gives a new
\* event the first free id of a range that belongs to its start instant, so
\* that calendars with the same content carry the same ids.
NewId(cal, seminar) ==
    Min({n \in (seminar.start + 1)..(seminar.start + Cardinality(cal) + 1) :
           \A e \in cal : e.id # n})

\* create_event: the event the calendar stores for the payload
NewEvent(cal, seminar) ==
    [id      |-> NewId(cal, seminar),
     subject |-> subject_of(seminar),
     start   |-> seminar.start,
     end     |-> seminar.end]

SyncOccs == {SemA, SemB}

SyncLists == SeqsUpTo(SyncOccs, MaxLen)

\* the values datetime.now(HK_TZ) takes: the end of SemA and a day later
NowTimes == {SemA.end, SemA.end + 86400}

\* events a first run can find in the calendar
SeedEvents ==
    { [id |-> 1, subject |-> subject_of(SemA), start |-> SemA.start, end |-> SemA.end],
      [id |-> 2, subject |-> "Lunch", start |-> SemA.start, end |-> SemA.end],
      [id |-> 3, subject |-> subject_of(SemA), start |-> NoneVal, end |-> SemA.end],
      [id |-> 4, subject |-> SUBJECT_PREFIX \o "old", start |-> SemA.start, end |-> NoneVal] }

\* history of one sync run: its seminars, whether they are those of the run
\* before, how it ended, the value of now_hk, the events created, the ids a
\* delete was sent for, and the status that answered each of them
NoSync ==
    [seminars |-> <<>>, same |-> FALSE, outcome |-> "none", now |-> NoneVal,
     creates |-> <<>>, deletes |-> <<>>, statuses |-> <<>>]

NewSync(list, same) ==
    [seminars |-> list, same |-> same, outcome |-> "running", now |-> NoneVal,
     creates |-> <<>>, deletes |-> <<>>, statuses |-> <<>>]

\* what is kept of a run once the next one starts: whether it ran to its end,
\* and with which now_hk
SyncSummary(r) ==
    IF r.outcome = "done"
    THEN [outcome |-> "done", now |-> r.now, gone |-> 404 \in Range(r.statuses)]
    ELSE [outcome |-> "other", now |-> NoneVal, gone |-> FALSE]

SyncInit ==
    /\ remote \in SUBSET SeedEvents
    /\ s_pc = "idle"
    /\ s_seminars = <<>>
    /\ page = 1
    /\ events = <<>>
    /\ existing_index = EmptyIndex
    /\ seminar_events = <<>>
    /\ s_idx = 1 /\ created = 0
    /\ now_hk = NoneVal
    /\ d_idx = 1 /\ deleted = 0
    /\ s_cur = NoSync
    /\ s_prev = SyncSummary(NoSync)

SyncIdle ==
    /\ remote = {} /\ s_pc = "idle" /\ s_seminars = <<>> /\ page = 1
    /\ events = <<>> /\ existing_index = EmptyIndex /\ seminar_events = <<>>
    /\ s_idx = 1 /\ created = 0 /\ now_hk = NoneVal /\ d_idx = 1 /\ deleted = 0
    /\ s_cur = NoSync /\ s_prev = SyncSummary(NoSync)

SyncFinished == {"idle", "done", "raised"}

RoundIdle ==
    rt_pc = "idle" /\ rt_keys = {} /\ rt_file = <<>> /\ rt_loaded = NoneVal

KeyIdle ==
    /\ k_pc = "idle" /\ k_a = NoneVal /\ k_b = NoneVal
    /\ k_notify = NoneVal /\ k_calendar = NoneVal

PureIdle == RoundIdle /\ KeyIdle

others == <<parseVars, notifyVars, pureVars>>

\* the locals of a call that has just started; they are gone when it ends
FreshLocals ==
    /\ page' = 1 /\ events' = <<>> /\ existing_index' = EmptyIndex
    /\ seminar_events' = <<>> /\ s_idx' = 1 /\ created' = 0
    /\ now_hk' = NoneVal /\ d_idx' = 1 /\ deleted' = 0

\* a run without seminars that still removes the prefixed events
SyncNoSeminarsPurge ==
    /\ s_pc \in SyncFinished
    /\ s_seminars' = <<>>
    /\ s_cur' = [NewSync(<<>>, s_seminars = <<>> /\ s_pc # "idle")
                   EXCEPT !.outcome = "no_seminars"]
    /\ s_prev' = SyncSummary(s_cur)
    /\ s_pc' = "done"
    /\ FreshLocals
    /\ remote' = {e \in remote : ~has_prefix(e.subject)}
    /\ UNCHANGED others

\* lines 308-311: fetch_seminars returns no seminar and the function returns
SyncNoSeminars ==
    /\ s_pc \in SyncFinished
    /\ s_seminars' = <<>>
    /\ s_cur' = [NewSync(<<>>, s_seminars = <<>> /\ s_pc # "idle")
                   EXCEPT !.outcome = "no_seminars"]
    /\ s_prev' = SyncSummary(s_cur)
    /\ s_pc' = "done"
    /\ FreshLocals
    /\ UNCHANGED <<remote, others>>

\* lines 308-316: fetch_seminars returns seminars; next is acquire_token
SyncStart ==
    /\ s_pc \in SyncFinished
    /\ \E list \in SyncLists \ {<<>>} :
         /\ s_seminars' = list
         /\ s_cur' = NewSync(list, list = s_seminars /\ s_pc # "idle")
    /\ s_prev' = SyncSummary(s_cur)
    /\ s_pc' = "token"
    /\ FreshLocals
    /\ UNCHANGED <<remote, others>>

\* acquire_token returns a token
AcquireToken ==
    /\ s_pc = "token"
    /\ s_pc' = "fetch"
    /\ UNCHANGED <<remote, s_seminars, page, events, existing_index, seminar_events,
                   s_idx, created, now_hk, d_idx, deleted, s_cur, s_prev, others>>

\* acquire_token raises RuntimeError
AcquireTokenFail ==
    /\ s_pc = "token"
    /\ s_pc' = "raised"
    /\ s_cur' = [s_cur EXCEPT !.outcome = "token_error"]
    /\ FreshLocals
    /\ UNCHANGED <<remote, s_seminars, s_prev, others>>

\* get_calendar_events_in_range: one pass of the while loop whose answer
\* carries an @odata.nextLink
FetchPage ==
    /\ s_pc = "fetch"
    /\ HasNextLink(WindowEvents(remote, s_seminars), page)
    /\ events' = events \o PageOf(WindowEvents(remote, s_seminars), page)
    /\ page' = page + 1
    /\ UNCHANGED <<remote, s_pc, s_seminars, existing_index, seminar_events,
                   s_idx, created, now_hk, d_idx, deleted, s_cur, s_prev, others>>

\* get_calendar_events_in_range: the pass whose answer carries no nextLink,
\* the return, and build_existing_event_index (lines 322-323)
FetchLastPage ==
    /\ s_pc = "fetch"
    /\ ~HasNextLink(WindowEvents(remote, s_seminars), page)
    /\ LET all == events \o PageOf(WindowEvents(remote, s_seminars), page)
           r   == build_existing_event_index(all, EmptyIndex, <<>>)
       IN  /\ events' = all
           /\ existing_index' = r.index
           /\ seminar_events' = r.seminar_events
    /\ s_pc' = "create"
    /\ UNCHANGED <<remote, s_seminars, page, s_idx, created, now_hk, d_idx,
                   deleted, s_cur, s_prev, others>>

\* resp.raise_for_status() raises in get_calendar_events_in_range
FetchFail ==
    /\ s_pc = "fetch"
    /\ s_pc' = "raised"
    /\ s_cur' = [s_cur EXCEPT !.outcome = "fetch_error"]
    /\ FreshLocals
    /\ UNCHANGED <<remote, s_seminars, s_prev, others>>

InCreate == s_pc = "create" /\ s_idx <= Len(s_seminars)

\* "if key in existing_index: continue"
CreateSkip ==
    /\ InCreate
    /\ seminar_key(s_seminars[s_idx]) \in DOMAIN existing_index
    /\ s_idx' = s_idx + 1
    /\ UNCHANGED <<remote, s_pc, s_seminars, page, events, existing_index,
                   seminar_events, created, now_hk, d_idx, deleted, s_cur, s_prev,
                   others>>

\* create_event(token, s); created += 1
CreateOk ==
    /\ InCreate
    /\ seminar_key(s_seminars[s_idx]) \notin DOMAIN existing_index
    /\ remote' = remote \cup {NewEvent(remote, s_seminars[s_idx])}
    /\ s_cur' = [s_cur EXCEPT !.creates = Append(@, NewEvent(remote, s_seminars[s_idx]))]
    /\ created' = created + 1
    /\ s_idx' = s_idx + 1
    /\ UNCHANGED <<s_pc, s_seminars, page, events, existing_index, seminar_events,
                   now_hk, d_idx, deleted, s_prev, others>>

\* create_event raises (resp.raise_for_status())
CreateFail ==
    /\ InCreate
    /\ seminar_key(s_seminars[s_idx]) \notin DOMAIN existing_index
    /\ s_pc' = "raised"
    /\ s_cur' = [s_cur EXCEPT !.outcome = "create_error"]
    /\ FreshLocals
    /\ UNCHANGED <<remote, s_seminars, s_prev, others>>

\* now_hk = datetime.now(HK_TZ); deleted = 0
ReadNow ==
    /\ s_pc = "create"
    /\ s_idx > Len(s_seminars)
    /\ \E t \in NowTimes :
         /\ now_hk' = t
         /\ s_cur' = [s_cur EXCEPT !.now = t]
    /\ s_pc' = "delete"
    /\ d_idx' = 1 /\ deleted' = 0
    /\ UNCHANGED <<remote, s_seminars, page, events, existing_index, seminar_events,
                   s_idx, created, s_prev, others>>

InDelete == s_pc = "delete" /\ d_idx <= Len(seminar_events)

\* the event has no end or has not ended: nothing is done
DeleteSkip ==
    /\ InDelete
    /\ ~is_expired(seminar_events[d_idx], now_hk)
    /\ d_idx' = d_idx + 1
    /\ UNCHANGED <<remote, s_pc, s_seminars, page, events, existing_index,
                   seminar_events, s_idx, created, now_hk, deleted, s_cur, s_prev,
                   others>>

\* delete_event returns: the answer was 204 (the event is removed), 404 (it
\* was already gone) or a status that is no error; deleted += 1
DeleteDone ==
    /\ InDelete
    /\ is_expired(seminar_events[d_idx], now_hk)
    /\ \E status \in DeleteStatuses :
         /\ delete_event(status)
         /\ s_cur' = [s_cur EXCEPT !.deletes = Append(@, seminar_events[d_idx].id),
                                   !.statuses = Append(@, status)]
    /\ remote' = remote \ {seminar_events[d_idx]}
    /\ deleted' = deleted + 1
    /\ d_idx' = d_idx + 1
    /\ UNCHANGED <<s_pc, s_seminars, page, events, existing_index, seminar_events,
                   s_idx, created, now_hk, s_prev, others>>

\* delete_event raises: raise_for_status() on another 4xx or 5xx status
DeleteFail ==
    /\ InDelete
    /\ is_expired(seminar_events[d_idx], now_hk)
    /\ \E status \in DeleteStatuses :
         /\ ~delete_event(status)
         /\ s_cur' = [s_cur EXCEPT
                        !.outcome = "delete_error",
                        !.deletes = Append(@, seminar_events[d_idx].id),
                        !.statuses = Append(@, status)]
    /\ s_pc' = "raised"
    /\ FreshLocals
    /\ UNCHANGED <<remote, s_seminars, s_prev, others>>

\* the print of the counts, and the return
SyncReturn ==
    /\ s_pc = "delete"
    /\ d_idx > Len(seminar_events)
    /\ s_pc' = "done"
    /\ s_cur' = [s_cur EXCEPT !.outcome = "done"]
    /\ FreshLocals
    /\ UNCHANGED <<remote, s_seminars, s_prev, others>>

SyncNext ==
    \/ SyncNoSeminars \/ SyncStart \/ AcquireToken \/ AcquireTokenFail
    \/ FetchPage \/ FetchLastPage \/ FetchFail
    \/ CreateSkip \/ CreateOk \/ CreateFail \/ ReadNow
    \/ DeleteSkip \/ DeleteDone \/ DeleteFail \/ SyncReturn

\* get_calendar_events_in_range on its own: the call of line 322, for each
\* calendar and each list of seminars
FetchInit ==
    /\ remote \in SUBSET SeedEvents
    /\ s_pc = "fetch"
    /\ \E list \in SyncLists \ {<<>>} :
         s_seminars = list /\ s_cur = NewSync(list, FALSE)
    /\ page = 1
    /\ events = <<>>
    /\ existing_index = EmptyIndex
    /\ seminar_events = <<>>
    /\ s_idx = 1 /\ created = 0
    /\ now_hk = NoneVal
    /\ d_idx = 1 /\ deleted = 0
    /\ s_prev = SyncSummary(NoSync)

FetchNext == FetchFail \/ FetchPage \/ FetchLastPage

-----------------------------------------------------------------------------
(* The two identity keys, computed for pairs of occurrences                *)

\* occurrences whose starts differ by seconds, by a minute, or by days
KeyStarts ==
    {SemA.start, SemA.start + 30, SemA.start + 59, SemA.start + 60, SemB.start}

KeyOccs ==
    {[title |-> ti, speaker |-> sp, start |-> st, end |-> st + 3600, venue |-> "V1"] :
        ti \in {"A", "B"}, sp \in {"S", "T"}, st \in KeyStarts}

KeyInit ==
    /\ k_pc = "call"
    /\ k_a \in KeyOccs
    /\ k_b \in KeyOccs
    /\ k_notify = NoneVal
    /\ k_calendar = NoneVal

\* _event_key of both, and the key of the create loop of both
KeyApply ==
    /\ k_pc = "call"
    /\ k_notify' = <<event_key(k_a), event_key(k_b)>>
    /\ k_calendar' = <<seminar_key(k_a), seminar_key(k_b)>>
    /\ k_pc' = "done"
    /\ UNCHANGED <<k_a, k_b, roundVars, parseVars, notifyVars, syncVars>>

KeyNext == KeyApply

-----------------------------------------------------------------------------
(* Properties of parse_datetime_range (checked under SpecParse)            *)

\* C4: every accepted (date text, time-range text) returns an end instant
\* strictly after the start instant.
C4_EndAfterStart == p_pc = "returned" => p_end > p_start

\* the two times of the range text, as parse_time reads them
RangeStart(r) == parse_time(Split(r, "-")[1])
RangeEnd(r) == parse_time(Split(r, "-")[2])

\* %p read "am": the time of day is before 12:00
IsAM(time) == time < 12 * 3600

\* the hours the spec adds to an end that is not after the start
RolloverHours(start_time, end_time) ==
    IF IsAM(start_time) /\ IsAM(end_time) THEN 12
    ELSE IF ~IsAM(start_time) /\ IsAM(end_time) THEN 24
    ELSE 12

\* C12: when the end time read from the range is not after the start time,
\* the returned end is that time moved forward by 12 hours (both AM, or any
\* other case) or by 24 hours (start PM, end AM).
C12_RolloverApplied ==
    (/\ p_pc = "returned" /\ p_range # ""
     /\ RangeEnd(p_range) <= RangeStart(p_range))
        => p_end = Combine(StrptimeDate(Strip(p_date)), RangeEnd(p_range))
                     + RolloverHours(RangeStart(p_range), RangeEnd(p_range)) * 3600

-----------------------------------------------------------------------------
(* Properties of send_new_invites (checked under SpecNotify)               *)

KeysOf(list) == {event_key(list[i]) : i \in DOMAIN list}

\* the key set a successful read of the file yields
DurableKeys(file) == load_sent_keys(file, FALSE).keys

\* the set the run's load returned
Loaded(r) == IF r.load = "ok" THEN DurableKeys(r.file0) ELSE {}

\* the run read its state file (no OSError from open)
ReadFile(r) == r.load \in {"ok", "missing", "warn_json"}

LastOf(q) == q[Len(q)]

\* position of the first occurrence with this key, 0 if none
FirstIndex(list, key) ==
    IF key \in KeysOf(list)
    THEN CHOOSE i \in DOMAIN list :
           /\ event_key(list[i]) = key
           /\ \A j \in 1..(i - 1) : event_key(list[j]) # key
    ELSE 0

\* C1 as stated: after a crashed run, the next run over the same list delivers
\* none of the occurrences the crashed run had delivered.
C1_NoResendAfterCrash ==
    (prev.outcome = "crash" /\ cur.same)
        => Range(Delivered(cur)) \cap Range(Delivered(prev)) = {}

\* C1 amended: after a crashed run, a next run over the same list that reads
\* the state file re-delivers at most the last occurrence the crashed run
\* delivered, and only when its key had not reached the state file.
C1_ResendOnlyUnpersistedLast ==
    (prev.outcome = "crash" /\ cur.same /\ ReadFile(cur))
        => \A i \in DOMAIN Delivered(prev) :
             Delivered(prev)[i] \in Range(Delivered(cur))
                => /\ i = Len(Delivered(prev))
                   /\ Delivered(prev)[i] \notin DurableKeys(cur.file0)

C1_Witness ==
    /\ prev.outcome = "crash" /\ Len(Delivered(prev)) = 2
    /\ cur.same /\ cur.load = "ok" /\ cur.outcome = "returned"
    /\ Delivered(cur) = <<Delivered(prev)[2]>>

\* C2: a failure-free run after a failure-free run over the same list delivers
\* nothing and returns 0; in general a failure-free run delivers exactly the
\* keys of its input that the state file does not hold, and none that the
\* failure-free run before it delivered.
C2_SecondRunIdempotent ==
    (prev.outcome = "returned" /\ ReadFile(cur))
        => /\ Range(Delivered(cur)) \cap Range(Delivered(prev)) = {}
           /\ Range(Delivered(cur)) \subseteq KeysOf(cur.seminars) \ DurableKeys(cur.file0)
           /\ cur.outcome = "returned"
                => /\ Range(Delivered(cur)) = KeysOf(cur.seminars) \ DurableKeys(cur.file0)
                   /\ cur.result = Len(Delivered(cur))
                   /\ cur.same => (Delivered(cur) = <<>> /\ cur.result = 0)

C2_Witness ==
    /\ prev.outcome = "returned" /\ Len(Delivered(prev)) = 2
    /\ cur.same /\ cur.load = "ok" /\ cur.outcome = "returned"
    /\ cur.result = 0 /\ Delivered(cur) = <<>>

\* the key whose delivery failed in a run that ended with a delivery failure
FailedKey(r) == LastOf(r.log).key

\* the occurrences from the failed one to the end of the list
FailedAndAfter(list, key) == SubSeq(list, FirstIndex(list, key), Len(list))

\* C6, the run that fails: it stops at the failed occurrence, whose key is not
\* added to the state file, while the keys delivered before are in it.
C6_AbortedRun ==
    cur.outcome = "send_error"
        => /\ n_pc = "raised"
           /\ LastOf(cur.log).op = "send_fail"
           /\ SelectKeys(cur.log, "send_fail") = <<FailedKey(cur)>>
           /\ FailedKey(cur) \notin Range(Delivered(cur))
           /\ Range(Delivered(cur)) \subseteq DurableKeys(fs[STATE_FILE])
           /\ IF Delivered(cur) = <<>>
              THEN fs[STATE_FILE] = cur.file0
              ELSE DurableKeys(fs[STATE_FILE]) = Loaded(cur) \cup Range(Delivered(cur))

\* C6 as stated: the re-run delivers the failed occurrence and every
\* unprocessed occurrence not marked done.
C6_RerunDeliversFailed ==
    /\ C6_AbortedRun
    /\ (prev.outcome = "send_error" /\ cur.same /\ ReadFile(cur)
          /\ cur.outcome = "returned")
        => /\ FailedKey(prev) \in Range(Delivered(cur))
           /\ Range(Delivered(cur)) =
                KeysOf(FailedAndAfter(cur.seminars, FailedKey(prev)))
                   \ (DurableKeys(cur.file0) \ {FailedKey(prev)})

\* C6 amended: the re-run delivers exactly those of the failed occurrence and
\* the unprocessed ones whose key is not in the state file.
C6_RerunResumes ==
    /\ C6_AbortedRun
    /\ (prev.outcome = "send_error" /\ cur.same /\ ReadFile(cur)
          /\ cur.outcome = "returned")
        => /\ Range(Delivered(cur)) =
                KeysOf(FailedAndAfter(cur.seminars, FailedKey(prev)))
                   \ DurableKeys(cur.file0)
           /\ KeysOf(cur.seminars) \ KeysOf(FailedAndAfter(cur.seminars, FailedKey(prev)))
                \subseteq DurableKeys(cur.file0)

C6_Witness ==
    /\ prev.outcome = "send_error" /\ Len(Delivered(prev)) = 1
    /\ cur.same /\ cur.load = "ok" /\ cur.outcome = "returned"
    /\ Delivered(cur) = <<FailedKey(prev)>>

\* C7: the load never aborts the run; a missing, corrupt or unreadable state
\* file gives the empty set (with a warning unless missing), and the run then
\* delivers every occurrence of its input.
C7_LoadNeverAborts ==
    /\ cur.outcome # "load_error"
    /\ (cur.load # "none" /\ cur.file0.kind # "array")
          => (cur.load \in {"missing", "warn_os", "warn_json"}
                /\ (cur.load = "missing" <=> cur.file0.kind = "missing"))
    /\ (cur.outcome = "returned" /\ cur.file0.kind # "array")
          => Range(Delivered(cur)) = KeysOf(cur.seminars)

\* C8: with an empty host, sender or recipient list the call raises at once:
\* no read of the state file, no delivery attempt, no write.
C8_NotReadyNoIO ==
    (smtp_host = "" \/ from_email = "" \/ to_emails = <<>>)
        => /\ n_pc \in {"idle", "raised"}
           /\ cur.outcome \in {"none", "config_error"}
           /\ cur.log = <<>>
           /\ cur.outcome = "config_error" => fs[STATE_FILE] = cur.file0
           /\ fs[STATE_FILE \o ".tmp"] = Missing

C8_Witness ==
    /\ smtp_host # "" /\ from_email # "" /\ to_emails = <<>>
    /\ cur.outcome = "config_error" /\ n_pc = "raised"
    /\ cur.seminars # <<>> /\ cur.file0.kind = "array" /\ prev.outcome = "config_error"

\* the complete contents the state file has had in this run, oldest first
RECURSIVE Contents(_)
Contents(log) ==
    IF log = <<>> THEN <<>>
    ELSE (IF Head(log).op = "replace" THEN <<Head(log).file>> ELSE <<>>)
         \o Contents(Tail(log))

\* the keys delivered before the k-th rename of the run
DeliveredBefore(r, k) == Range(SubSeq(Delivered(r), 1, k))

\* C9: at every point of a run, crash points included, the state file is the
\* complete content it had before the write in progress or the complete new
\* content; nothing is ever written to the state file's own path, only to the
\* temporary path that is then renamed over it.
C9_AtomicWrite ==
    cur.outcome # "none"
        => LET cs == Contents(cur.log)
           IN  /\ fs[STATE_FILE] = IF cs = <<>> THEN cur.file0 ELSE LastOf(cs)
               /\ \A k \in DOMAIN cs :
                    cs[k] = dump_keys(Loaded(cur) \cup DeliveredBefore(cur, k))
               /\ \A i \in DOMAIN cur.log :
                    cur.log[i].op = "open_w" => cur.log[i].key # STATE_FILE
               /\ n_pc = "save_replace" => fs[STATE_FILE \o ".tmp"] = dump_keys(sent)

C9_Witness ==
    /\ n_pc = "crashed" /\ LastOf(cur.log).key = "save_dump"
    /\ fs[STATE_FILE \o ".tmp"].kind = "truncated"
    /\ fs[STATE_FILE] = cur.file0 /\ cur.file0.kind = "array" /\ cur.file0.items # <<>>

\* the keys of the list that are not in seen, each once, in list order
RECURSIVE FirstNew(_, _)
FirstNew(list, seen) ==
    IF list = <<>> THEN <<>>
    ELSE LET key == event_key(Head(list))
         IN  IF key \in seen THEN FirstNew(Tail(list), seen)
             ELSE <<key>> \o FirstNew(Tail(list), seen \cup {key})

IsPrefix(p, q) == Len(p) <= Len(q) /\ SubSeq(q, 1, Len(p)) = p

\* the keys whose delivery the run attempted, in order
Attempts(r) ==
    LET a == SelectOps(r.log, {"send_ok", "send_fail"})
    IN  [i \in DOMAIN a |-> a[i].key]

\* C14: a run that returns gives the number of its deliveries, which is the
\* number of distinct keys of its argument that the loaded set did not hold;
\* no key is delivered twice in a run.
C14_CountIsDistinctNewKeys ==
    cur.outcome = "returned"
        => /\ cur.result = Len(Delivered(cur))
           /\ Len(Delivered(cur)) = Cardinality(KeysOf(cur.seminars) \ Loaded(cur))
           /\ Cardinality(Range(Delivered(cur))) = Len(Delivered(cur))
           /\ Range(Delivered(cur)) = KeysOf(cur.seminars) \ Loaded(cur)

C14_Witness ==
    /\ cur.outcome = "returned" /\ cur.result = 1
    /\ Len(cur.seminars) = 2 /\ cur.seminars[1] = cur.seminars[2]
    /\ Loaded(cur) # {}

\* C15: deliveries are attempted in the order of the argument, and between a
\* delivery and the next attempt the state file is replaced by the loaded
\* keys plus all keys delivered so far; every replace follows a delivery of
\* its own.
C15_PersistAfterEachSend ==
    cur.outcome # "none"
        => /\ IsPrefix(Attempts(cur), FirstNew(cur.seminars, Loaded(cur)))
           /\ \A i \in DOMAIN cur.log :
                /\ (cur.log[i].op = "send_ok"
                      /\ \E j \in (i + 1)..Len(cur.log) :
                            cur.log[j].op \in {"send_ok", "send_fail"})
                     => /\ cur.log[i + 1].op = "open_w"
                        /\ cur.log[i + 2].op = "replace"
                        /\ cur.log[i + 2].file.kind = "array"
                        /\ DurableKeys(cur.log[i + 2].file) =
                             Loaded(cur)
                                \cup Range(SelectKeys(SubSeq(cur.log, 1, i), "send_ok"))
                /\ cur.log[i].op = "replace"
                     => (i > 2 /\ cur.log[i - 2].op = "send_ok")

C15_Witness ==
    /\ cur.outcome = "returned" /\ Len(Delivered(cur)) = 2
    /\ Len(SelectOps(cur.log, {"replace"})) = 2
    /\ Loaded(cur) # {}

\* C16: every key that the state file held when the run started is in the
\* state file at every later point of the run.
C16_NeverPruned ==
    cur.outcome # "none"
        => DurableKeys(cur.file0) \subseteq DurableKeys(fs[STATE_FILE])

\* the delivered keys of the run that the state file does not hold
Unpersisted == Range(Delivered(cur)) \ DurableKeys(fs[STATE_FILE])

\* C20: at every point of a run, the delivered keys of the run that are not
\* in the state file are at most the key of the latest delivery, and only
\* while its write is under way or after the write failed or the process died.
C20_AtMostLastUnpersisted ==
    (cur.outcome # "none" /\ Unpersisted # {})
        => /\ Unpersisted = {LastOf(Delivered(cur))}
           /\ n_pc \in {"save_open", "save_dump", "save_replace", "raised", "crashed"}
           /\ n_pc = "raised" => cur.outcome = "save_error"

C20_Witness ==
    /\ n_pc = "raised" /\ cur.outcome = "save_error"
    /\ Len(Delivered(cur)) = 2
    /\ Unpersisted = {Delivered(cur)[2]}

-----------------------------------------------------------------------------
(* Properties of sync_seminars_to_outlook (checked under SpecSync)         *)

Prefixed(e) == StartsWith(e.subject, SUBJECT_PREFIX)

\* the events were fetched and the index is built
Indexed == s_pc \in {"create", "delete"}

\* the delete loop has gone through all of seminar_events
DeletePhaseOver == s_pc = "delete" /\ d_idx > Len(seminar_events)

\* the fetched events that carry the prefix, a start and this calendar key
Matches(seminar) ==
    {e \in Range(events) :
        /\ Prefixed(e) /\ e.start # NoneVal
        /\ <<e.subject, truncate_minute(e.start)>> = seminar_key(seminar)}

\* C3: a second complete run with the same seminars and the same now, the
\* calendar having been changed by this program only, creates no event.
C3_SecondRunCreatesNothing ==
    (/\ s_prev.outcome = "done" /\ ~s_prev.gone
     /\ s_cur.same /\ s_cur.now = s_prev.now)
        => s_cur.creates = <<>>

\* C5: an event whose subject does not start with the prefix is never in the
\* index nor in seminar_events, no delete is sent for it, it stays in the
\* calendar, and an occurrence is skipped only for a prefixed event.
C5_NonPrefixedUntouched ==
    /\ \A k \in DOMAIN existing_index : Prefixed(existing_index[k])
    /\ \A i \in DOMAIN seminar_events : Prefixed(seminar_events[i])
    /\ \A e \in SeedEvents : ~Prefixed(e) => e.id \notin Range(s_cur.deletes)
    /\ Indexed =>
         /\ \A e \in Range(events) :
              ~Prefixed(e) => (e \in remote /\ e.id \notin Range(s_cur.deletes))
         /\ Len(s_cur.creates) =
              Cardinality({i \in 1..(s_idx - 1) : Matches(s_seminars[i]) = {}})

C5_Witness ==
    /\ DeletePhaseOver
    /\ \E e \in Range(events) : ~Prefixed(e) /\ e.end < now_hk /\ e \in remote
    /\ Len(s_cur.deletes) >= 1 /\ Len(s_cur.creates) >= 1

\* C10 as stated: the deletes of a run are sent for exactly the fetched events
\* with the prefix whose end is before now.
C10_DeletesAllExpiredPrefixed ==
    DeletePhaseOver
        => Range(s_cur.deletes) =
             {e.id : e \in {x \in Range(events) :
                              Prefixed(x) /\ x.end # NoneVal /\ x.end < now_hk}}

\* C10 amended: the deletes of a run are sent for exactly the fetched events
\* with the prefix and a start time whose end is strictly before now; no
\* delete is ever sent for an event that ends at or after now.
C10_DeletesExpiredIndexed ==
    s_pc = "delete"
        => /\ \A i \in DOMAIN s_cur.deletes :
                \E e \in Range(events) :
                   /\ e.id = s_cur.deletes[i] /\ Prefixed(e)
                   /\ e.start # NoneVal /\ e.end # NoneVal /\ e.end < now_hk
           /\ DeletePhaseOver
                => Range(s_cur.deletes) =
                     {e.id : e \in {x \in Range(events) :
                                      /\ Prefixed(x) /\ x.start # NoneVal
                                      /\ x.end # NoneVal /\ x.end < now_hk}}

C10_Witness ==
    /\ DeletePhaseOver /\ Len(s_cur.deletes) >= 2
    /\ \E e \in Range(events) : Prefixed(e) /\ e.end = NoneVal
    /\ \E e \in Range(events) : ~Prefixed(e) /\ e.end < now_hk

\* a 4xx or 5xx status other than 404
OtherFailure(status) == raises_for_status(status) /\ status # 404

\* C11: a delete answered 404 does not raise, the loop goes on and the delete
\* is counted; a delete answered with another failure status raises and the
\* run ends there.
C11_DeleteNotFoundCounts ==
    LET st == s_cur.statuses
    IN  /\ Len(st) = Len(s_cur.deletes)
        /\ \A i \in DOMAIN st :
              /\ OtherFailure(st[i])
                   => (i = Len(st) /\ s_cur.outcome = "delete_error" /\ s_pc = "raised")
              /\ st[i] = 404
                   => ~(i = Len(st) /\ s_cur.outcome = "delete_error")
        /\ s_cur.outcome = "delete_error" => OtherFailure(LastOf(st))
        /\ s_pc = "delete"
              => /\ deleted = Len(st)
                 /\ s_cur.outcome = "running"
                 /\ d_idx > Len(st)

C11_Witness ==
    /\ s_pc = "delete" /\ deleted = 2 /\ d_idx = 3
    /\ s_cur.statuses = <<404, 204>>

\* a fetched event carries the prefix, a start, and the subject and start
\* minute of this occurrence
InFetched(seminar) ==
    \E e \in Range(events) :
       /\ Prefixed(e) /\ e.start # NoneVal
       /\ e.subject = SUBJECT_PREFIX \o seminar.title \o " - " \o seminar.speaker
       /\ e.start - (e.start % 60) = seminar.start - (seminar.start % 60)

\* the occurrences of the list that have no such event, in order
RECURSIVE NotFetched(_)
NotFetched(list) ==
    IF list = <<>> THEN <<>>
    ELSE (IF InFetched(Head(list)) THEN <<>> ELSE <<Head(list)>>)
         \o NotFetched(Tail(list))

\* C17: the create loop has created, in order, one event for each occurrence
\* it has passed whose calendar key no fetched prefixed event carries, and
\* none for the others.
C17_CreateIffKeyAbsent ==
    Indexed
        => LET passed == NotFetched(SubSeq(s_seminars, 1, s_idx - 1))
           IN  /\ Len(s_cur.creates) = Len(passed) /\ created = Len(passed)
               /\ \A i \in DOMAIN passed :
                    /\ s_cur.creates[i].subject = subject_of(passed[i])
                    /\ s_cur.creates[i].start = passed[i].start
                    /\ s_cur.creates[i].end = passed[i].end
                    /\ s_cur.creates[i] \in remote \/ s_pc = "delete"

C17_Witness ==
    /\ s_pc = "delete" /\ Len(s_seminars) = 2
    /\ InFetched(s_seminars[1]) /\ ~InFetched(s_seminars[2])
    /\ Len(s_cur.creates) = 1 /\ s_cur.creates[1].subject = subject_of(s_seminars[2])

\* the calendar key of an event, as build_existing_event_index computes it
CreatedKey(e) == <<e.subject, truncate_minute(e.start)>>

\* C21: the events one run has created carry pairwise different calendar
\* keys (subject, start truncated to the minute).
C21_AtMostOnePerKey ==
    \A i, j \in DOMAIN s_cur.creates :
        CreatedKey(s_cur.creates[i]) = CreatedKey(s_cur.creates[j]) => i = j

\* the run has gone through the create and the delete loop and has returned
RunCompleted == s_pc = "done" /\ s_cur.outcome = "done"

\* C22: when a run has completed, the calendar holds no prefixed event of the
\* run's window whose end is before the run's now, the events the run
\* created included.
C22_NoExpiredPrefixedLeft ==
    RunCompleted
        => \A e \in remote :
              ~(/\ Prefixed(e)
                /\ InWindow(e, earliest(s_seminars), latest(s_seminars))
                /\ e.end # NoneVal /\ e.end < s_cur.now)

\* the run found no seminar on the page
NoSeminarsRun == s_cur.outcome = "no_seminars"

\* C23: a run that finds no seminar goes from the call to the return in one
\* step, so it passes neither acquire_token nor the event query; it has sent
\* no create and no delete, and it leaves the calendar as it was.
C23_NoSeminarsNoRemoteOp ==
    /\ [](NoSeminarsRun
            => /\ s_pc = "done"
               /\ s_cur.creates = <<>> /\ s_cur.deletes = <<>>
               /\ events = <<>> /\ page = 1 /\ created = 0 /\ deleted = 0)
    /\ [][NoSeminarsRun' => (s_pc \in SyncFinished /\ remote' = remote)]_syncVars

\* a run without seminars has returned after a complete run, and the calendar
\* still holds a prefixed event that ended before that run's now
C23_Witness ==
    /\ NoSeminarsRun /\ s_pc = "done" /\ s_prev.outcome = "done"
    /\ \E e \in remote :
          /\ Prefixed(e) /\ e.start # NoneVal
          /\ e.end # NoneVal /\ e.end < s_prev.now

-----------------------------------------------------------------------------
(* Properties of get_calendar_events_in_range (checked under SpecFetch)    *)

\* the events of the calendar that the window of the run holds
InRange == {e \in remote : InWindow(e, earliest(s_seminars), latest(s_seminars))}

\* the sequence has every element of the set once, in the calendar's order
AllInOrder(q, S) ==
    /\ Range(q) = S /\ Len(q) = Cardinality(S)
    /\ \A i, j \in DOMAIN q : i < j => q[i].id < q[j].id

\* what the fetch has done: while it runs, events holds the full pages before
\* the current one; when it has returned, events holds every event of the
\* window in page order, the last page asked is the first one without a
\* nextLink, and the index is built from all of them
FetchedAll ==
    /\ s_pc = "fetch"
         => /\ Len(events) = (page - 1) * PageSize
            /\ Len(events) <= Cardinality(InRange)
            /\ Range(events) \subseteq InRange
    /\ s_pc = "create"
         => /\ AllInOrder(events, InRange)
            /\ (page - 1) * PageSize < Len(events) \/ page = 1
            /\ page * PageSize >= Len(events)
            /\ Range(seminar_events) =
                 {e \in InRange : Prefixed(e) /\ e.start # NoneVal}
            /\ \A e \in Range(seminar_events) :
                 <<e.subject, truncate_minute(e.start)>> \in DOMAIN existing_index

\* C18: the fetch follows the nextLinks to the first page without one, returns
\* the events of all pages in page order, and ends (by returning or raising)
\* when the calendar gives such a page.
C18_FetchFollowsNextLinks == [](FetchedAll) /\ (s_pc = "fetch" ~> s_pc # "fetch")

C18_Witness ==
    /\ s_pc = "create" /\ page = 2 /\ Len(events) = 4
    /\ Len(seminar_events) = 2

-----------------------------------------------------------------------------
(* Properties of the state file's text (checked under SpecRound)           *)

\* C13: the set _load_sent_keys returns after _save_sent_keys(keys) is keys.
C13_SaveLoadRoundTrip == rt_pc = "loaded" => rt_loaded = rt_keys

C13_Witness ==
    /\ rt_pc = "loaded" /\ rt_loaded = rt_keys
    /\ {"a\"b", "a\\b", "x\",\n  \"y", ""} \subseteq rt_keys

-----------------------------------------------------------------------------
(* Properties of the identity keys (checked under SpecKeys)                *)

SameMinute(t, u) == t \div 60 = u \div 60

\* C19: two occurrences with the same title and speaker whose starts are in
\* the same minute and differ in the seconds have the same calendar key and
\* different notify-once keys; with the same start both keys are the same,
\* and with starts in different minutes both keys differ.
C19_KeyGranularity ==
    (k_pc = "done" /\ k_a.title = k_b.title /\ k_a.speaker = k_b.speaker)
        => /\ k_calendar[1] = k_calendar[2] <=> SameMinute(k_a.start, k_b.start)
           /\ k_notify[1] = k_notify[2] <=> k_a.start = k_b.start

C19_Witness ==
    /\ k_pc = "done" /\ k_a.title = k_b.title /\ k_a.speaker = k_b.speaker
    /\ k_b.start = k_a.start + 30 /\ SameMinute(k_a.start, k_b.start)
    /\ k_calendar[1] = k_calendar[2] /\ k_notify[1] # k_notify[2]

vars == <<parseVars, notifyVars, syncVars, pureVars>>

ParseNext == ParseReturn \/ ParseRaise

InitParse == ParseInit /\ NotifyIdle /\ SyncIdle /\ PureIdle

SpecParse == InitParse /\ [][ParseNext]_vars

InitNotify == NotifyInit /\ ParseIdle /\ SyncIdle /\ PureIdle

SpecNotify == InitNotify /\ [][NotifyNext]_vars

InitSync == SyncInit /\ ParseIdle /\ NotifyIdle /\ PureIdle

SpecSync == InitSync /\ [][SyncNext]_vars

InitFetch == FetchInit /\ ParseIdle /\ NotifyIdle /\ PureIdle

\* the while loop of get_calendar_events_in_range goes on as long as it can
SpecFetch == InitFetch /\ [][FetchNext]_vars /\ WF_vars(FetchNext)

InitKeys == KeyInit /\ RoundIdle /\ ParseIdle /\ NotifyIdle /\ SyncIdle

SpecKeys == InitKeys /\ [][KeyNext]_vars

InitRound == RoundInit /\ KeyIdle /\ ParseIdle /\ NotifyIdle /\ SyncIdle

SpecRound == InitRound /\ [][RoundNext]_vars

====
